---- MODULE Spec2Model ----
(***************************************************************************)
(* Response-side decryption middleware of oio-swift                        *)
(* (oioswift/common/middleware/crypto/decrypter.py).                       *)
(*                                                                         *)
(* One request is processed end to end: Decrypter.__call__ routes it,      *)
(* DecrypterObjContext.get_decryption_keys resolves the key bundles and    *)
(* DecrypterObjContext.decrypt_resp_headers builds the new header list.    *)
(* The helpers inherited from swift (the header codec, the user metadata   *)
(* remap, the key fetch, the handler skeleton) are modelled next to them.  *)
(***************************************************************************)
EXTENDS Integers, Sequences, FiniteSets, TLC

VARIABLES pc, entry, method, path, override, sysmeta, headers,
          put_keys, post_keys, kres, handler, outcome

vars == <<pc, entry, method, path, override, sysmeta, headers,
          put_keys, post_keys, kres, handler, outcome>>

\* Longest response header list explored for decrypt_resp_headers.
MaxHdrs == 3

\* Python's None, as a header value / key id.
None == "<None>"

-----------------------------------------------------------------------------
(* Header names.  Names are the strings the code and the wire use; lower() *)
(* is the table of str.lower over the names that occur.                    *)

EtagSysmeta == "X-Object-Sysmeta-Crypto-Etag"
EtagOverride == "X-Object-Sysmeta-Container-Update-Override-Etag"
TransientFoo == "X-Object-Transient-Sysmeta-Crypto-Meta-Foo"
TransientFooLc == "x-object-transient-sysmeta-crypto-meta-foo"

Lower(h) ==
    CASE h \in {"Etag", "ETag", "etag"} -> "etag"
      [] h = EtagSysmeta -> "x-object-sysmeta-crypto-etag"
      [] h = EtagOverride -> "x-object-sysmeta-container-update-override-etag"
      [] h \in {TransientFoo, TransientFooLc} -> TransientFooLc
      [] h \in {"X-Object-Meta-Foo", "X-Object-Meta-foo"} -> "x-object-meta-foo"
      [] h = "Content-Type" -> "content-type"

\* name.lower().startswith('x-object-transient-sysmeta-crypto-meta-')
IsTransient(h) == Lower(h) = TransientFooLc

\* 'X-Object-Meta-' + name[prefix_len:]: the suffix keeps its case.
UserMetaName(h) ==
    CASE h = TransientFoo -> "X-Object-Meta-Foo"
      [] h = TransientFooLc -> "X-Object-Meta-foo"

-----------------------------------------------------------------------------
(* Header values.  "E(x)" is a well-formed encrypted value (ciphertext     *)
(* with crypto meta) whose plaintext under the key of its scope is x,      *)
(* "E!" carries crypto meta but cannot be decrypted, "a" and "b" carry no  *)
(* crypto meta, "" is an empty value.                                      *)

Encrypted == {"E()", "E(a)", "E(b)"}

HasCryptoMeta(v) == v \in Encrypted \cup {"E!"}

Decipher(v) ==
    CASE v = "E()" -> ""
      [] v = "E(a)" -> "a"
      [] v = "E(b)" -> "b"

\* Python truthiness of a str-or-None.
Truthy(v) == v # None /\ v # ""

\* decrypt_value_with_meta: the plaintext, the value itself when it has no
\* crypto meta and is not required, or an EncryptionException.
DecryptValueWithMeta(v, required) ==
    IF HasCryptoMeta(v)
    THEN IF v \in Encrypted
         THEN [exc |-> FALSE, val |-> Decipher(v)]
         ELSE [exc |-> TRUE, val |-> None]
    ELSE IF required
         THEN [exc |-> TRUE, val |-> None]
         ELSE [exc |-> FALSE, val |-> v]

\* _decrypt_header: an EncryptionException becomes HTTPInternalServerError.
\* The codec is inherited from swift and its treatment of a failing
\* non-required header is not fixed by this repository: swift raises all the
\* same, the design describes the value as absent.  Both are explored:
\* lenient = TRUE yields None for a failing non-required header.
DecryptHeader(v, required, lenient) ==
    LET d == DecryptValueWithMeta(v, required)
    IN  IF d.exc /\ lenient /\ ~required
        THEN [exc |-> FALSE, val |-> None]
        ELSE d

-----------------------------------------------------------------------------
(* Key bundles: None, or a dict holding a key for each scope in scopes.    *)

Scopes == {"object", "container"}
NoneKeys == [none |-> TRUE, scopes |-> {}]
Bundle(S) == [none |-> FALSE, scopes |-> S]
KeySets == {NoneKeys} \cup {Bundle(S) : S \in (SUBSET Scopes) \ {{}}}

\* `if keys:` - neither None nor an empty dict.
KeysTruthy(k) == ~k.none /\ k.scopes # {}

-----------------------------------------------------------------------------
(* decrypt_resp_headers                                                    *)

Min(S) == CHOOSE x \in S : \A y \in S : x <= y

\* WSGIContext._response_header_value: first case-insensitive match.
ResponseHeaderValue(hdrs, key) ==
    LET idx == {i \in 1..Len(hdrs) : Lower(hdrs[i][1]) = Lower(key)}
    IN  IF idx = {} THEN None ELSE hdrs[Min(idx)][2]

\* ObjectEtagStep with the failure of the object-scope copy swallowed.
ObjectEtagStepOptional(keys, hdrs, lenient) ==
    LET encrypted_etag == ResponseHeaderValue(hdrs, EtagSysmeta)
    IN  IF Truthy(encrypted_etag) /\ "object" \in keys.scopes
        THEN LET d == DecryptHeader(encrypted_etag, TRUE, lenient)
             IN  IF d.exc
                 THEN [exc |-> "none", pairs |-> <<>>, decrypted_etag |-> None]
                 ELSE [exc |-> "none", pairs |-> <<<<"Etag", d.val>>>>,
                       decrypted_etag |-> d.val]
        ELSE [exc |-> "none", pairs |-> <<>>, decrypted_etag |-> None]

\* ObjectEtagStep staging the encrypted value instead of the decrypted one.
ObjectEtagStepEncrypted(keys, hdrs, lenient) ==
    LET encrypted_etag == ResponseHeaderValue(hdrs, EtagSysmeta)
    IN  IF Truthy(encrypted_etag) /\ "object" \in keys.scopes
        THEN LET d == DecryptHeader(encrypted_etag, TRUE, lenient)
             IN  IF d.exc
                 THEN [exc |-> "HTTPInternalServerError", pairs |-> <<>>,
                       decrypted_etag |-> None]
                 ELSE [exc |-> "none", pairs |-> <<<<"Etag", encrypted_etag>>>>,
                       decrypted_etag |-> d.val]
        ELSE [exc |-> "none", pairs |-> <<>>, decrypted_etag |-> None]

\* Lines 76-83: the object-scope checksum, required.
ObjectEtagStep(keys, hdrs, lenient) ==
    LET encrypted_etag == ResponseHeaderValue(hdrs, EtagSysmeta)
    IN  IF Truthy(encrypted_etag) /\ "object" \in keys.scopes
        THEN LET d == DecryptHeader(encrypted_etag, TRUE, lenient)
             IN  IF d.exc
                 THEN [exc |-> "HTTPInternalServerError", pairs |-> <<>>,
                       decrypted_etag |-> None]
                 ELSE [exc |-> "none", pairs |-> <<<<"Etag", d.val>>>>,
                       decrypted_etag |-> d.val]
        ELSE [exc |-> "none", pairs |-> <<>>, decrypted_etag |-> None]

\* Line 90: the integrity check between the two checksum copies.
EtagMismatch(decrypted_etag, dcrypt_etag_override) ==
    Truthy(decrypted_etag) /\ dcrypt_etag_override # decrypted_etag

\* Lines 85-98: the container-scope checksum copy, not required.
ContainerEtagStep(keys, hdrs, decrypted_etag, lenient) ==
    LET encrypted_etag == ResponseHeaderValue(hdrs, EtagOverride)
    IN  IF Truthy(encrypted_etag) /\ "container" \in keys.scopes
        THEN LET d == DecryptHeader(encrypted_etag, FALSE, lenient)
             IN  IF d.exc
                 THEN [exc |-> "HTTPInternalServerError", pairs |-> <<>>]
                 ELSE IF EtagMismatch(decrypted_etag, d.val)
                 THEN [exc |-> "HTTPForbidden", pairs |-> <<>>]
                 ELSE [exc |-> "none",
                       pairs |-> <<<<EtagOverride, d.val>>, <<"ETag", d.val>>>>]
        ELSE [exc |-> "none", pairs |-> <<>>]

\* swift's decrypt_user_metadata: every transient crypto-meta header with a
\* value is decrypted with keys['object'] (KeyError when the bundle has
\* none) and re-emitted in the x-object-meta- namespace.
RECURSIVE DecryptUserMetadata(_, _, _)
DecryptUserMetadata(keys, hdrs, lenient) ==
    IF hdrs = <<>>
    THEN [exc |-> "none", pairs |-> <<>>]
    ELSE LET name == Head(hdrs)[1]
             val == Head(hdrs)[2]
             rest == DecryptUserMetadata(keys, Tail(hdrs), lenient)
         IN  IF IsTransient(name) /\ val # ""
             THEN IF "object" \notin keys.scopes
                  THEN [exc |-> "KeyError", pairs |-> <<>>]
                  ELSE LET d == DecryptHeader(val, ~lenient, lenient)
                       IN  IF d.exc
                           THEN [exc |-> "HTTPInternalServerError",
                                 pairs |-> <<>>]
                           ELSE IF rest.exc # "none"
                           THEN rest
                           ELSE IF d.val = None
                           THEN rest
                           ELSE [exc |-> "none",
                                 pairs |-> <<<<UserMetaName(name), d.val>>>>
                                           \o rest.pairs]
             ELSE rest

\* Lines 111-113: the original headers whose name is not staged yet.
Passthrough(mod_hdr_pairs, hdrs) ==
    LET mod_hdr_names ==
            {Lower(mod_hdr_pairs[i][1]) : i \in 1..Len(mod_hdr_pairs)}
    IN  SelectSeq(hdrs, LAMBDA p : Lower(p[1]) \notin mod_hdr_names)

\* Lines 107-116: remap and passthrough share one try block; a KeyError
\* anywhere in it ends the block and what was staged so far is returned.
MetadataAndPassthrough(staged, post, hdrs, lenient) ==
    LET meta == IF KeysTruthy(post)
                THEN DecryptUserMetadata(post, hdrs, lenient)
                ELSE [exc |-> "none", pairs |-> <<>>]
    IN  CASE meta.exc = "KeyError" ->
               [exc |-> "none", hdrs |-> staged, staged |-> Len(staged)]
          [] meta.exc = "HTTPInternalServerError" ->
               [exc |-> "HTTPInternalServerError", hdrs |-> <<>>, staged |-> 0]
          [] OTHER ->
               LET mod == staged \o meta.pairs
               IN  [exc |-> "none", hdrs |-> mod \o Passthrough(mod, hdrs),
                    staged |-> Len(mod)]

\* Lines 71-116.  The result: the exception raised ("none" on a normal
\* return), the returned list, and how many of its entries were staged
\* before the passthrough headers.
decrypt_resp_headers(put, post, hdrs, lenient) ==
    IF KeysTruthy(put)
    THEN LET s1 == ObjectEtagStep(put, hdrs, lenient)
         IN  IF s1.exc # "none"
             THEN [exc |-> s1.exc, hdrs |-> <<>>, staged |-> 0]
             ELSE LET s2 == ContainerEtagStep(put, hdrs, s1.decrypted_etag,
                                              lenient)
                  IN  IF s2.exc # "none"
                      THEN [exc |-> s2.exc, hdrs |-> <<>>, staged |-> 0]
                      ELSE MetadataAndPassthrough(s1.pairs \o s2.pairs,
                                                  post, hdrs, lenient)
    ELSE MetadataAndPassthrough(<<>>, post, hdrs, lenient)

-----------------------------------------------------------------------------
(* get_decryption_keys                                                     *)

Methods == {"GET", "HEAD", "PUT", "POST"}

\* Values of env.get('swift.crypto.override'): absent, a bool, a string.
Overrides == {None, "bool:True", "bool:False", "str:true", "str:no"}

\* config_true_value recognising the bool only.
config_true_value_bool_only(v) == v = "bool:True"

\* swift.common.utils.config_true_value: True, or a string in TRUE_VALUES.
config_true_value(v) == v \in {"bool:True", "str:true"}

\* info['sysmeta'] of get_object_info, as the set of its keys.
SysmetaSets == {{}, {"crypto-body-meta"}, {"crypto-etag", "crypto-body-meta"}}

\* Ciphered looking for the wrong sysmeta entry.
CipheredByBodyMeta(info_sysmeta) == "crypto-body-meta" \in info_sysmeta

\* Line 38: the object is cyphered.
Ciphered(info_sysmeta) == "crypto-etag" \in info_sysmeta

\* crypto_meta read from the response: None, a dict without key_id, a dict
\* with one.
CryptoMetas == {None, "{iv}", "{iv,key_id:k1}"}

\* Line 42.
KeyIdOf(crypto_meta) ==
    IF crypto_meta = None THEN None
    ELSE IF crypto_meta = "{iv,key_id:k1}" THEN "k1" ELSE None

\* ReadVerb with every verb degrading.
ReadVerbAny(meth) == meth \in Methods

\* Line 48: the verbs that degrade instead of failing.
ReadVerb(meth) == meth \in {"HEAD", "GET"}

\* Answers of get_keys: HTTPException, or the key dict, which holds at
\* least the required scopes (['object'] when required is not given).
Denied == [denied |-> TRUE, keys |-> NoneKeys]
Granted(S) == [denied |-> FALSE, keys |-> Bundle(S)]
FullAnswers == {Denied, Granted({"object"}), Granted(Scopes)}
ContainerAnswers == {Denied, Granted({"container"}), Granted(Scopes)}

\* Line 44: get_keys(req.environ, key_id=key_id).
FullFetch(key_id) == [required |-> None, key_id |-> key_id]

\* FallbackFetch forgetting the key id.
FallbackFetchNoKeyId(key_id) == [required |-> "['container']", key_id |-> None]

\* Lines 50-51: get_keys(req.environ, ['container'], key_id=key_id).
FallbackFetch(key_id) == [required |-> "['container']", key_id |-> key_id]

\* Lines 33-56.  r1 and r2 are the key service's answers to the first and
\* to the fallback fetch.  The result: whether HTTPException left the
\* function, the value returned, the fetches made and the number of
\* get_object_info calls.
get_decryption_keys(meth, ovr, info_sysmeta, crypto_meta, r1, r2) ==
    IF config_true_value(ovr)
    THEN [raised |-> FALSE, ret |-> NoneKeys, calls |-> <<>>, info |-> 0]
    ELSE IF ~Ciphered(info_sysmeta)
    THEN [raised |-> FALSE, ret |-> NoneKeys, calls |-> <<>>, info |-> 1]
    ELSE LET key_id == KeyIdOf(crypto_meta)
         IN  IF ~r1.denied
             THEN [raised |-> FALSE, ret |-> r1.keys,
                   calls |-> <<FullFetch(key_id)>>, info |-> 1]
             ELSE IF ReadVerb(meth)
             THEN [raised |-> FALSE,
                   ret |-> IF r2.denied THEN NoneKeys ELSE r2.keys,
                   calls |-> <<FullFetch(key_id), FallbackFetch(key_id)>>,
                   info |-> 1]
             ELSE [raised |-> TRUE, ret |-> NoneKeys,
                   calls |-> <<FullFetch(key_id)>>, info |-> 1]

-----------------------------------------------------------------------------
(* Decrypter.__call__                                                      *)

\* Request paths and req.split_path(3, 4, True): ValueError unless version,
\* account and a container segment (possibly empty) are there; the object
\* segment is None when absent.
Paths == {"/v1", "/v1/a", "/v1/a/", "/v1/a/c", "/v1/a/c/", "/v1/a/c/o",
          "/v1/a//o"}

SplitPath(p) ==
    CASE p \in {"/v1", "/v1/a"} -> [err |-> TRUE, parts |-> <<>>]
      [] p = "/v1/a/" -> [err |-> FALSE, parts |-> <<"v1", "a", "", None>>]
      [] p = "/v1/a/c" -> [err |-> FALSE, parts |-> <<"v1", "a", "c", None>>]
      [] p = "/v1/a/c/" -> [err |-> FALSE, parts |-> <<"v1", "a", "c", "">>]
      [] p = "/v1/a/c/o" -> [err |-> FALSE, parts |-> <<"v1", "a", "c", "o">>]
      [] p = "/v1/a//o" -> [err |-> FALSE, parts |-> <<"v1", "a", "", "o">>]

\* Route sending every read of a container to the container handler.
RouteContainerAnyRead(parts, meth) ==
    IF Truthy(parts[4]) /\ meth \in {"HEAD", "GET"} THEN "obj"
    ELSE IF Truthy(parts[3]) /\ meth \in {"HEAD", "GET"} THEN "cont"
    ELSE "pass"

\* Lines 129-136 (parts[3] is the object, parts[2] the container).
Route(parts, meth) ==
    IF Truthy(parts[4]) /\ meth \in {"HEAD", "GET"} THEN "obj"
    ELSE IF Truthy(parts[3]) /\ meth = "GET" THEN "cont"
    ELSE "pass"

\* Lines 124-136: the handler chosen, "pass" for self.app(env, ...).
Dispatch(p, meth) ==
    LET sp == SplitPath(p)
    IN  IF sp.err THEN "pass" ELSE Route(sp.parts, meth)

-----------------------------------------------------------------------------
(* The request as a state machine                                          *)

NoCall == [ran |-> FALSE, slot |-> "none", crypto_meta |-> None,
           r1 |-> Denied, r2 |-> Denied, raised |-> FALSE,
           ret |-> NoneKeys, calls |-> <<>>, info |-> 0]

NoOutcome == [kind |-> "none", exc |-> "none", hdrs |-> <<>>, staged |-> 0]

\* Response headers of the pipeline runs.
SampleHeaders ==
    { <<>>,
      << <<"Content-Type", "a">>, <<"etag", "b">> >>,
      << <<EtagSysmeta, "E(a)">>, <<EtagOverride, "E(a)">>,
         <<TransientFoo, "E(b)">>, <<"etag", "b">> >>,
      << <<EtagSysmeta, "E(a)">>, <<EtagOverride, "E(b)">> >> }

\* The request enters through Decrypter.__call__, or a DecrypterObjContext
\* handles it directly.
Init ==
    /\ entry \in {"call", "handle"}
    /\ method \in Methods
    /\ path \in (IF entry = "call" THEN Paths ELSE {"/v1/a/c/o"})
    /\ override \in Overrides
    /\ sysmeta \in SysmetaSets
    /\ headers \in SampleHeaders
    /\ pc = IF entry = "call" THEN "call" ELSE "put_keys"
    /\ handler = IF entry = "call" THEN "none" ELSE "obj"
    /\ put_keys = NoneKeys
    /\ post_keys = NoneKeys
    /\ kres = NoCall
    /\ outcome = NoOutcome

\* Lines 122-136.
Call ==
    /\ pc = "call"
    /\ handler' = Dispatch(path, method)
    /\ pc' = CASE handler' = "obj" -> "put_keys"
               [] handler' = "cont" -> "cont"
               [] OTHER -> "done"
    /\ outcome' = IF handler' = "pass"
                  THEN [kind |-> "passthrough", exc |-> "none",
                        hdrs |-> headers, staged |-> 0]
                  ELSE outcome
    /\ UNCHANGED <<entry, method, path, override, sysmeta, headers,
                   put_keys, post_keys, kres>>

\* Lines 26-56, as the handler calls it: for the put-side keys, then for
\* the post-side keys.
GetDecryptionKeys ==
    /\ pc \in {"put_keys", "post_keys"}
    /\ \E cm \in CryptoMetas, r1 \in FullAnswers, r2 \in ContainerAnswers :
         LET r == get_decryption_keys(method, override, sysmeta, cm, r1, r2)
             made == Len(r.calls)
         IN  /\ kres' = [ran |-> TRUE,
                         slot |-> IF pc = "put_keys" THEN "put" ELSE "post",
                         crypto_meta |-> cm,
                         r1 |-> IF made >= 1 THEN r1 ELSE Denied,
                         r2 |-> IF made >= 2 THEN r2 ELSE Denied,
                         raised |-> r.raised, ret |-> r.ret,
                         calls |-> r.calls, info |-> r.info]
             /\ IF r.raised
                THEN /\ pc' = "raised"
                     /\ outcome' = [kind |-> "raised", exc |-> "HTTPException",
                                    hdrs |-> <<>>, staged |-> 0]
                     /\ UNCHANGED <<put_keys, post_keys>>
                ELSE /\ pc' = IF pc = "put_keys" THEN "post_keys" ELSE "keys_done"
                     /\ put_keys' = IF pc = "put_keys" THEN r.ret ELSE put_keys
                     /\ post_keys' = IF pc = "post_keys" THEN r.ret ELSE post_keys
                     /\ UNCHANGED outcome
    /\ UNCHANGED <<entry, method, path, override, sysmeta, headers, handler>>

\* swift's DecrypterObjContext.handle: with no keys at all the response
\* goes out as it came.
SkipDecryption ==
    /\ pc = "keys_done"
    /\ put_keys.none /\ post_keys.none
    /\ pc' = "done"
    /\ outcome' = [kind |-> "skipped", exc |-> "none", hdrs |-> headers,
                   staged |-> 0]
    /\ UNCHANGED <<entry, method, path, override, sysmeta, headers,
                   put_keys, post_keys, kres, handler>>

\* Lines 58-116.
DecryptRespHeaders ==
    /\ pc = "keys_done"
    /\ ~(put_keys.none /\ post_keys.none)
    /\ \E lenient \in BOOLEAN :
         LET r == decrypt_resp_headers(put_keys, post_keys, headers, lenient)
         IN  IF r.exc = "none"
             THEN /\ pc' = "done"
                  /\ outcome' = [kind |-> "decrypted", exc |-> "none",
                                 hdrs |-> r.hdrs, staged |-> r.staged]
             ELSE /\ pc' = "raised"
                  /\ outcome' = [kind |-> "raised", exc |-> r.exc,
                                 hdrs |-> <<>>, staged |-> 0]
    /\ UNCHANGED <<entry, method, path, override, sysmeta, headers,
                   put_keys, post_keys, kres, handler>>

\* swift's DecrypterContContext.handle: the container listing is rewritten,
\* or the handler raises an HTTPException.
ContHandle ==
    /\ pc = "cont"
    /\ \E ok \in BOOLEAN :
         IF ok
         THEN /\ pc' = "done"
              /\ outcome' = [kind |-> "container", exc |-> "none",
                             hdrs |-> headers, staged |-> 0]
         ELSE /\ pc' = "raised"
              /\ outcome' = [kind |-> "raised",
                             exc |-> "HTTPInternalServerError",
                             hdrs |-> <<>>, staged |-> 0]
    /\ UNCHANGED <<entry, method, path, override, sysmeta, headers,
                   put_keys, post_keys, kres, handler>>

\* Lines 138-141: the exception becomes the response.
CatchHTTPException ==
    /\ pc = "raised"
    /\ entry = "call"
    /\ pc' = "done"
    /\ outcome' = [outcome EXCEPT !.kind = "error_response"]
    /\ UNCHANGED <<entry, method, path, override, sysmeta, headers,
                   put_keys, post_keys, kres, handler>>

\* Without Decrypter.__call__ around it the exception reaches the caller.
Propagate ==
    /\ pc = "raised"
    /\ entry = "handle"
    /\ pc' = "done"
    /\ outcome' = [outcome EXCEPT !.kind = "propagated"]
    /\ UNCHANGED <<entry, method, path, override, sysmeta, headers,
                   put_keys, post_keys, kres, handler>>

Next ==
    \/ Call
    \/ GetDecryptionKeys
    \/ SkipDecryption
    \/ DecryptRespHeaders
    \/ ContHandle
    \/ CatchHTTPException
    \/ Propagate

Spec == Init /\ [][Next]_vars

-----------------------------------------------------------------------------
(* decrypt_resp_headers on its own: every key bundle pair, every header    *)
(* list up to MaxHdrs entries.                                             *)

HeaderPairs ==
    ({EtagSysmeta} \X {"", "E()", "E(a)", "E!"})
    \cup ({EtagOverride} \X {"E(a)", "E(b)", "E!", "b"})
    \cup ({TransientFoo} \X {"E(a)", "E!"})
    \cup ({TransientFooLc} \X {"E(b)"})
    \cup ({"X-Object-Meta-Foo"} \X {"b"})
    \cup ({"etag"} \X {"b"})
    \cup ({"Content-Type"} \X {"a"})

HeaderLists == UNION {[1..n -> HeaderPairs] : n \in 0..MaxHdrs}

InitHdrs ==
    /\ entry = "handle"
    /\ method = "GET"
    /\ path = "/v1/a/c/o"
    /\ override = None
    /\ sysmeta = {"crypto-etag", "crypto-body-meta"}
    /\ headers \in HeaderLists
    /\ pc = "keys_done"
    /\ handler = "obj"
    /\ put_keys \in KeySets
    /\ post_keys \in KeySets
    /\ ~(put_keys.none /\ post_keys.none)
    /\ kres = NoCall
    /\ outcome = NoOutcome

NextHdrs ==
    \/ DecryptRespHeaders
    \/ Propagate

SpecHdrs == InitHdrs /\ [][NextHdrs]_vars

-----------------------------------------------------------------------------
(* Properties.  The request's inputs are read from the state: the key      *)
(* bundles, the response headers, the verb, the flag.                      *)

\* decrypt_resp_headers returned normally.
Returned == outcome.kind = "decrypted"

\* decrypt_resp_headers was left by an exception.
Failed == outcome.kind \in {"raised", "propagated", "error_response"}

\* The encrypted copies of the checksum in the response (None when absent).
ObjCopy == ResponseHeaderValue(headers, EtagSysmeta)
ContCopy == ResponseHeaderValue(headers, EtagOverride)

OutNames(from, to) == {Lower(outcome.hdrs[i][1]) : i \in from..to}

OverrideSet == override \in {"bool:True", "str:true"}
Marked == "crypto-etag" \in sysmeta
IsRead == method \in {"HEAD", "GET"}
KresKeyId == IF kres.crypto_meta = "{iv,key_id:k1}" THEN "k1" ELSE None

\* C1: with both checksum copies present, both keys in the bundle and two
\* different plaintexts, decrypt_resp_headers ends with HTTPForbidden and
\* returns no header list, whatever the object-scope plaintext (the empty
\* one included).
C1_MismatchIsForbidden ==
    (/\ pc # "keys_done"
     /\ put_keys.scopes = Scopes
     /\ ObjCopy \in Encrypted
     /\ ContCopy \in Encrypted
     /\ Decipher(ObjCopy) # Decipher(ContCopy))
    => (Failed /\ outcome.exc = "HTTPForbidden" /\ outcome.hdrs = <<>>)

\* C2: on HEAD or GET of an encrypted object without override, a denied
\* first fetch is followed by exactly one fetch scoped to ['container'] with
\* the same key_id; the result is that fetch's bundle, or None when it is
\* denied too; nothing is raised.
C2_ReadFallback ==
    (kres.ran /\ IsRead /\ ~OverrideSet /\ Marked /\ kres.r1.denied)
    => /\ kres.calls = << [required |-> None, key_id |-> KresKeyId],
                          [required |-> "['container']", key_id |-> KresKeyId] >>
       /\ ~kres.raised
       /\ kres.ret = (IF kres.r2.denied THEN NoneKeys ELSE kres.r2.keys)
       /\ outcome.exc # "HTTPException"

C2_Witness ==
    /\ kres.ran /\ IsRead /\ ~OverrideSet /\ Marked /\ kres.r1.denied
    /\ ~kres.r2.denied
    /\ kres.crypto_meta = "{iv,key_id:k1}"
    /\ kres.ret = Bundle({"container"})

\* C3: on a verb other than HEAD and GET, for an encrypted object without
\* override, a denied fetch leaves get_decryption_keys as HTTPException
\* after that single fetch, and the response headers are never rewritten;
\* through Decrypter.__call__ such a request is passed on untouched.
C3_NonReadDenialPropagates ==
    /\ (kres.ran /\ ~IsRead /\ ~OverrideSet /\ Marked /\ kres.r1.denied)
       => /\ kres.raised
          /\ kres.calls = << [required |-> None, key_id |-> KresKeyId] >>
          /\ pc \in {"raised", "done"}
          /\ outcome.kind \in {"raised", "propagated"}
          /\ outcome.exc = "HTTPException"
          /\ outcome.hdrs = <<>>
    /\ (entry = "call" /\ ~IsRead /\ pc = "done")
       => (outcome.kind = "passthrough" /\ outcome.hdrs = headers
           /\ ~kres.ran)

C3_Witness ==
    /\ kres.ran /\ method = "PUT" /\ ~OverrideSet /\ Marked /\ kres.r1.denied
    /\ kres.raised
    /\ outcome.kind = "propagated"

\* C4: get_decryption_keys returns None without any key fetch when the
\* override flag is true (object info is not even read), and when the flag
\* is not true and the sysmeta has no 'crypto-etag'.
C4_NotRequired ==
    kres.ran =>
       /\ OverrideSet =>
            (kres.ret = NoneKeys /\ kres.calls = <<>> /\ kres.info = 0
             /\ ~kres.raised)
       /\ (~OverrideSet /\ ~Marked) =>
            (kres.ret = NoneKeys /\ kres.calls = <<>> /\ ~kres.raised)

C4_Witness ==
    /\ kres.ran /\ override = "str:true" /\ Marked /\ method = "PUT"
    /\ kres.ret = NoneKeys

\* C5: in the returned list no staged entry shares its case-insensitive
\* name with another staged entry or with a passthrough entry.
C5_NoCollidingNames ==
    Returned =>
       \A i \in 1..outcome.staged : \A j \in 1..Len(outcome.hdrs) :
          i < j => Lower(outcome.hdrs[i][1]) # Lower(outcome.hdrs[j][1])

\* C6: on a normal return the original headers that collide with no staged
\* name follow the staged entries, unchanged and in their order, also when
\* the metadata remap failed.
C6_PassthroughKept ==
    Returned =>
       SubSeq(outcome.hdrs, outcome.staged + 1, Len(outcome.hdrs))
         = SelectSeq(headers,
                     LAMBDA p : Lower(p[1]) \notin OutNames(1, outcome.staged))

\* C7: GET with object and container keys: the returned list has a
\* client-visible checksum equal to the object-scope plaintext, one
\* x-object-meta- entry per decryptable transient header, and no entry left
\* in the transient namespace.
C7_GetEncryptedObject ==
    (/\ Returned
     /\ method = "GET"
     /\ put_keys.scopes = Scopes
     /\ post_keys.scopes = Scopes
     /\ ObjCopy \in Encrypted)
    => /\ \E i \in 1..Len(outcome.hdrs) :
             outcome.hdrs[i] = <<"Etag", Decipher(ObjCopy)>>
       /\ \A k \in 1..Len(headers) :
             (IsTransient(headers[k][1]) /\ headers[k][2] \in Encrypted)
             => \E i \in 1..Len(outcome.hdrs) :
                   outcome.hdrs[i] = <<UserMetaName(headers[k][1]),
                                       Decipher(headers[k][2])>>
       /\ \A i \in 1..Len(outcome.hdrs) : ~IsTransient(outcome.hdrs[i][1])

Parses == path \notin {"/v1", "/v1/a"}
HasObject == path \in {"/v1/a/c/o", "/v1/a//o"}
HasContainer == path \in {"/v1/a/c", "/v1/a/c/", "/v1/a/c/o"}
ToObject == Parses /\ HasObject /\ IsRead
ToContainer == Parses /\ ~ToObject /\ HasContainer /\ method = "GET"

C10_Routing ==
    (entry = "call" /\ pc # "call")
    => /\ handler = (IF ToObject THEN "obj"
                     ELSE IF ToContainer THEN "cont" ELSE "pass")
       /\ handler = "pass"
            => (pc = "done" /\ outcome.kind = "passthrough"
                /\ outcome.hdrs = headers /\ ~kres.ran)
       /\ handler = "cont" => (~kres.ran /\ outcome.kind # "decrypted")
       /\ (pc = "done" /\ outcome.exc # "none")
            => outcome.kind = "error_response"

C10_Witness ==
    /\ entry = "call" /\ pc = "done"
    /\ handler = "obj"
    /\ outcome.kind = "error_response"
    /\ outcome.exc = "HTTPForbidden"

====
